---- MODULE Spec2Model ----
(***************************************************************************)
(* NPC personality system (src/main.py): trait extraction from a model     *)
(* response, manual trait entry, the dialogue prompt with its bounded      *)
(* history, the text-generation gateway and the session loop.              *)
(*                                                                         *)
(* Python strings are TLA+ strings; Len, \o and SubSeq act on them         *)
(* character by character.                                                 *)
(***************************************************************************)
EXTENDS Integers, Sequences, FiniteSets, TLC

VARIABLES
    pc,                    \* position of the running function
    response,              \* text handed to / returned by the running function
    onMissing,             \* extraction policy the caller asks for
    npc_personality,       \* Personality object, or NoPersonality
    entered,               \* the five lines typed into create_custom_personality
    world_description,     \* scene text of the session
    conversation_history,  \* history held by npc_personality_system
    player_input,          \* last line read by the session loop
    prompt,                \* prompt of the gateway call in flight
    outcome,               \* what the backend did with the last call
    exchanges,             \* log of completed <<player line, NPC line>> pairs
    calls                  \* number of gateway calls issued

vars == <<pc, response, onMissing, npc_personality, entered, world_description,
          conversation_history, player_input, prompt, outcome, exchanges, calls>>

-----------------------------------------------------------------------------
(* Bounds of the model *)

\* most fragments a generated response is put together from
MaxFragments == 5

\* most conversation turns of one session
MaxTurns == 3

-----------------------------------------------------------------------------
(* Python string primitives *)

CharAt(s, i) == SubSeq(s, i, i)

Digits == <<"0", "1", "2", "3", "4", "5", "6", "7", "8", "9">>

IsDigit(c) == c \in {"0", "1", "2", "3", "4", "5", "6", "7", "8", "9"}

DigitValue(c) == (CHOOSE d \in 1..10 : Digits[d] = c) - 1

\* the lower-case letter of every upper-case ASCII letter
LowerOf ==
    ("A" :> "a") @@ ("B" :> "b") @@ ("C" :> "c") @@ ("D" :> "d") @@ ("E" :> "e") @@ ("F" :> "f") @@
    ("G" :> "g") @@ ("H" :> "h") @@ ("I" :> "i") @@ ("J" :> "j") @@ ("K" :> "k") @@ ("L" :> "l") @@
    ("M" :> "m") @@ ("N" :> "n") @@ ("O" :> "o") @@ ("P" :> "p") @@ ("Q" :> "q") @@ ("R" :> "r") @@
    ("S" :> "s") @@ ("T" :> "t") @@ ("U" :> "u") @@ ("V" :> "v") @@ ("W" :> "w") @@ ("X" :> "x") @@
    ("Y" :> "y") @@ ("Z" :> "z")

UpperCaseLetters == DOMAIN LowerOf

\* str.lower() on one character
LowerChar(c) == IF c \in UpperCaseLetters THEN LowerOf[c] ELSE c

\* str.upper() on one character
UpperChar(c) ==
    IF \E u \in UpperCaseLetters : LowerOf[u] = c
    THEN CHOOSE u \in UpperCaseLetters : LowerOf[u] = c
    ELSE c

RECURSIVE Lower(_)
\* str.lower(): every character lowered (the string is halved to keep the
\* evaluation shallow)
Lower(s) ==
    IF Len(s) = 0 THEN ""
    ELSE IF Len(s) = 1 THEN LowerChar(s)
    ELSE LET h == Len(s) \div 2
         IN  Lower(SubSeq(s, 1, h)) \o Lower(SubSeq(s, h + 1, Len(s)))

\* str.capitalize(): first character upper-cased, the rest lowered
Capitalize(s) ==
    IF Len(s) = 0 THEN "" ELSE UpperChar(CharAt(s, 1)) \o Lower(SubSeq(s, 2, Len(s)))

IsSpace(c) == c \in {" ", "\n", "\t", "\r"}

RECURSIVE LStrip(_)
LStrip(s) ==
    IF Len(s) > 0 /\ IsSpace(CharAt(s, 1)) THEN LStrip(SubSeq(s, 2, Len(s))) ELSE s

RECURSIVE RStrip(_)
RStrip(s) ==
    IF Len(s) > 0 /\ IsSpace(CharAt(s, Len(s)))
    THEN RStrip(SubSeq(s, 1, Len(s) - 1)) ELSE s

\* str.strip()
Strip(s) == RStrip(LStrip(s))

RECURSIVE DecimalValue(_)
\* value of a non-empty run of decimal digits
DecimalValue(ds) ==
    IF Len(ds) = 0 THEN 0
    ELSE 10 * DecimalValue(SubSeq(ds, 1, Len(ds) - 1)) + DigitValue(CharAt(ds, Len(ds)))

RECURSIVE IntToStr(_)
\* str(n) of an int, as an f-string renders it
IntToStr(n) ==
    IF n < 0 THEN "-" \o IntToStr(-n)
    ELSE IF n < 10 THEN Digits[n + 1]
    ELSE IntToStr(n \div 10) \o Digits[(n % 10) + 1]

\* min(a, b) and max(a, b)
Min(a, b) == IF a <= b THEN a ELSE b

Max(a, b) == IF a >= b THEN a ELSE b

-----------------------------------------------------------------------------
(* class Personality *)

TraitNames ==
    <<"openness", "conscientiousness", "agreeableness", "neuroticism", "extraversion">>

NoPersonality == [none |-> TRUE]

\* Personality.__init__: the five arguments are stored as given
Personality(o, c, a, n, e) ==
    [openness |-> o, conscientiousness |-> c, agreeableness |-> a,
     neuroticism |-> n, extraversion |-> e]

TraitOf(p, t) ==
    CASE t = "openness" -> p.openness
      [] t = "conscientiousness" -> p.conscientiousness
      [] t = "agreeableness" -> p.agreeableness
      [] t = "neuroticism" -> p.neuroticism
      [] t = "extraversion" -> p.extraversion

-----------------------------------------------------------------------------
(* parse_personality_from_response *)

\* the default every trait starts from
TraitDefault == 50

RECURSIVE DigitRun(_, _)
\* (\d+) taken greedily from position i
DigitRun(text, i) ==
    IF i <= Len(text) /\ IsDigit(CharAt(text, i))
    THEN CharAt(text, i) \o DigitRun(text, i + 1)
    ELSE ""

RECURSIVE EqualFrom(_, _, _, _, _)
\* the literal's characters from k on stand in the text from position i + k - 1 on,
\* each compared as given or, with fold, after lowering both
EqualFrom(lit, text, i, k, fold) ==
    IF k > Len(lit) THEN TRUE
    ELSE LET a == CharAt(lit, k)
             b == CharAt(text, i + k - 1)
         IN  /\ IF fold THEN LowerChar(a) = LowerChar(b) ELSE a = b
             /\ EqualFrom(lit, text, i, k + 1, fold)

RECURSIVE ScanFrom(_, _, _, _)
\* leftmost position from i on where the literal is followed by a digit; 0: none
ScanFrom(lit, text, i, fold) ==
    IF i + Len(lit) > Len(text) THEN 0
    ELSE IF EqualFrom(lit, text, i, 1, fold) /\ IsDigit(CharAt(text, i + Len(lit)))
         THEN i
         ELSE ScanFrom(lit, text, i + 1, fold)

NoMatch == [found |-> FALSE, group1 |-> ""]

\* the search without re.IGNORECASE
ReSearchCaseSensitive(label, text) ==
    LET lit == label \o ": "
        at  == ScanFrom(lit, text, 1, FALSE)
    IN  IF at = 0 THEN NoMatch
        ELSE [found |-> TRUE, group1 |-> DigitRun(text, at + Len(lit))]

\* re.search(fr"{label}: (\d+)", text, re.IGNORECASE): the leftmost match
ReSearch(label, text) ==
    LET lit == label \o ": "
        at  == ScanFrom(lit, text, 1, TRUE)
    IN  IF at = 0 THEN NoMatch
        ELSE [found |-> TRUE, group1 |-> DigitRun(text, at + Len(lit))]

\* one round of the loop over traits: the default stays unless the pattern matches
ExtractTrait(trait, text) ==
    LET match == ReSearch(Capitalize(trait), text)
    IN  IF match.found THEN DecimalValue(match.group1) ELSE TraitDefault

ParsePersonalityFromResponse(text) ==
    Personality(ExtractTrait("openness", text),
                ExtractTrait("conscientiousness", text),
                ExtractTrait("agreeableness", text),
                ExtractTrait("neuroticism", text),
                ExtractTrait("extraversion", text))

\* pieces a backend response is put together from
Fragments ==
    << "Openness: 85 ",
       "openness: 500 ",
       "Conscientiousness: 40 ",
       "Agreeableness: 77 ",
       "Neuroticism: 12 ",
       "Extraversion: 93 ",
       "EXTRAVERSION: shy " >>

\* orders of distinct fragments, at most MaxFragments long
FragmentOrders ==
    UNION { { s \in [1..n -> 1..Len(Fragments)] :
                \A i, j \in 1..n : s[i] = s[j] => i = j } : n \in 0..MaxFragments }

RECURSIVE Join(_)
Join(s) == IF Len(s) = 0 THEN "" ELSE Fragments[Head(s)] \o Join(Tail(s))

ResponseTexts == { Join(s) : s \in FragmentOrders }

\* the extraction policies a caller may want: fill in defaults, or fail
Policies == {"default", "fail"}

\* the failure a strict extraction would signal; nothing in the source raises it
ExtractionError == [error |-> "ExtractionError"]

InitExtract ==
    /\ pc = "generated"
    /\ response \in ResponseTexts
    /\ onMissing = "default"
    /\ npc_personality = NoPersonality
    /\ entered = <<>>
    /\ world_description = ""
    /\ conversation_history = ""
    /\ player_input = ""
    /\ prompt = ""
    /\ outcome = [kind |-> "none"]
    /\ exchanges = <<>>
    /\ calls = 0

\* the caller parses a response under the policy it wants; the function takes the
\* response alone, so the policy has no way in
ParsePersonality ==
    /\ pc = "generated"
    /\ npc_personality' = ParsePersonalityFromResponse(response)
    /\ \E m \in Policies : onMissing' = m
    /\ pc' = "parsed"
    /\ UNCHANGED <<response, entered, world_description, conversation_history,
                   player_input, prompt, outcome, exchanges, calls>>

NextExtract == ParsePersonality

SpecExtract == InitExtract /\ [][NextExtract]_vars

-----------------------------------------------------------------------------
(* Claims about trait extraction *)

TraitSet == { TraitNames[k] : k \in 1..Len(TraitNames) }

\* "<TraitName>: " followed by a digit stands at position i, whatever the case
PatternAt(text, t, i) ==
    LET n == Len(t) + 2
    IN  /\ i + n <= Len(text)
        /\ LowerChar(CharAt(text, i)) = CharAt(t, 1)
        /\ Lower(SubSeq(text, i, i + n - 1)) = t \o ": "
        /\ IsDigit(CharAt(text, i + n))

PatternPositions(text, t) == { i \in 1..Len(text) : PatternAt(text, t, i) }

\* the integer of the first of the places ps the pattern stands at
FirstMatchedInteger(text, t, ps) ==
    LET first == CHOOSE i \in ps : \A j \in ps : i <= j
        from  == first + Len(t) + 2
        to    == CHOOSE j \in from..Len(text) :
                    /\ \A k \in from..j : IsDigit(CharAt(text, k))
                    /\ j = Len(text) \/ ~IsDigit(CharAt(text, j + 1))
    IN  DecimalValue(SubSeq(text, from, to))

\* C1: every trait of the record returned by trait extraction lies in [0, 100],
\* a matched integer above 100 being clamped to 100.
C1_ExtractedTraitsInRange ==
    pc = "parsed" =>
        \A t \in TraitSet :
            LET ps == PatternPositions(response, t)
            IN  /\ TraitOf(npc_personality, t) \in 0..100
                /\ (ps # {} =>
                      TraitOf(npc_personality, t) =
                          Min(100, FirstMatchedInteger(response, t, ps)))

\* C2: lenient extraction returns all five fields, the default 50 for exactly the
\* traits whose pattern is absent and the first matched integer for the others.
C2_LenientDefaults ==
    pc = "parsed" =>
        /\ DOMAIN npc_personality = TraitSet
        /\ \A t \in TraitSet :
              LET ps == PatternPositions(response, t)
              IN  TraitOf(npc_personality, t) =
                      IF ps = {} THEN 50 ELSE FirstMatchedInteger(response, t, ps)

\* a response with all of: a trait matched twice, a trait matched once, a label
\* without digits, an absent trait
C2_Witness ==
    /\ pc = "parsed"
    /\ Cardinality(PatternPositions(response, "openness")) = 2
    /\ npc_personality.openness = 85
    /\ PatternPositions(response, "extraversion") # {}
    /\ npc_personality.extraversion = 93
    /\ PatternPositions(response, "neuroticism") = {}
    /\ npc_personality.neuroticism = 50
    /\ npc_personality.conscientiousness = 50

\* C3: in strict mode (onMissing = "fail"), a response lacking a trait pattern
\* makes extraction signal ExtractionError instead of filling in defaults.
C3_StrictSignalsError ==
    (pc = "parsed" /\ onMissing = "fail"
        /\ \E t \in TraitSet : PatternPositions(response, t) = {})
    => npc_personality = ExtractionError

-----------------------------------------------------------------------------
(* create_custom_personality *)

RECURSIVE WithoutUnderscores(_)
WithoutUnderscores(s) ==
    IF Len(s) = 0 THEN ""
    ELSE (IF CharAt(s, 1) = "_" THEN "" ELSE CharAt(s, 1))
             \o WithoutUnderscores(SubSeq(s, 2, Len(s)))

\* digits, with single underscores allowed between two digits
IsIntLiteralBody(s) ==
    /\ Len(s) > 0
    /\ IsDigit(CharAt(s, 1))
    /\ IsDigit(CharAt(s, Len(s)))
    /\ \A k \in 1..Len(s) : IsDigit(CharAt(s, k)) \/ CharAt(s, k) = "_"
    /\ \A k \in 1..(Len(s) - 1) : ~(CharAt(s, k) = "_" /\ CharAt(s, k + 1) = "_")

ValueError == [ok |-> FALSE, value |-> 0]

\* int(line): surrounding whitespace dropped, an optional sign, then the digits;
\* anything else raises ValueError
IntOfLine(line) ==
    LET t      == Strip(line)
        signed == Len(t) > 0 /\ CharAt(t, 1) \in {"+", "-"}
        body   == IF signed THEN SubSeq(t, 2, Len(t)) ELSE t
        mag    == DecimalValue(WithoutUnderscores(body))
    IN  IF ~IsIntLiteralBody(body) THEN ValueError
        ELSE [ok |-> TRUE,
              value |-> IF signed /\ CharAt(t, 1) = "-" THEN 0 - mag ELSE mag]

\* the clamp with its lower bound forgotten
ClampUpperOnly(t) == Min(100, t)

\* max(0, min(100, t))
Clamp(t) == Max(0, Min(100, t))

\* the five lines are converted in order; the first ValueError abandons the entry
\* and the defaults are returned
CreateCustomPersonality(lines) ==
    IF \A k \in 1..5 : IntOfLine(lines[k]).ok
    THEN Personality(Clamp(IntOfLine(lines[1]).value),
                     Clamp(IntOfLine(lines[2]).value),
                     Clamp(IntOfLine(lines[3]).value),
                     Clamp(IntOfLine(lines[4]).value),
                     Clamp(IntOfLine(lines[5]).value))
    ELSE Personality(50, 50, 50, 50, 50)

\* lines a user may type at a trait prompt
EntryLines == {"30", "-5", "150", " +1_00 ", "abc"}

InitCustom ==
    /\ pc = "entering"
    /\ entered \in [1..5 -> EntryLines]
    /\ response = ""
    /\ onMissing = "default"
    /\ npc_personality = NoPersonality
    /\ world_description = ""
    /\ conversation_history = ""
    /\ player_input = ""
    /\ prompt = ""
    /\ outcome = [kind |-> "none"]
    /\ exchanges = <<>>
    /\ calls = 0

CreateCustom ==
    /\ pc = "entering"
    /\ npc_personality' = CreateCustomPersonality(entered)
    /\ pc' = "created"
    /\ UNCHANGED <<response, onMissing, entered, world_description,
                   conversation_history, player_input, prompt, outcome, exchanges, calls>>

NextCustom == CreateCustom

SpecCustom == InitCustom /\ [][NextCustom]_vars

-----------------------------------------------------------------------------
(* Claims about manual trait entry *)

\* the value an entered integer must be stored as
Stored(n) == IF n < 0 THEN 0 ELSE IF n > 100 THEN 100 ELSE n

\* C6 as stated: whatever the five entered inputs, every trait is in [0, 100] and
\* each entered integer is stored clamped (below 0 as 0, above 100 as 100, in range
\* unchanged).
C6_EveryEnteredIntegerClamped ==
    pc = "created" =>
        \A k \in 1..5 :
            /\ TraitOf(npc_personality, TraitNames[k]) \in 0..100
            /\ (IntOfLine(entered[k]).ok =>
                  TraitOf(npc_personality, TraitNames[k]) = Stored(IntOfLine(entered[k]).value))

\* C6 amended: every trait is in [0, 100]; when all five entered inputs are
\* integers each is stored clamped; when any one is not an integer all five traits
\* are the default 50.
C6_ClampedOrAllDefaults ==
    pc = "created" =>
        /\ \A k \in 1..5 : TraitOf(npc_personality, TraitNames[k]) \in 0..100
        /\ IF \A k \in 1..5 : IntOfLine(entered[k]).ok
           THEN \A k \in 1..5 :
                   TraitOf(npc_personality, TraitNames[k]) = Stored(IntOfLine(entered[k]).value)
           ELSE \A k \in 1..5 : TraitOf(npc_personality, TraitNames[k]) = 50

\* five integers entered, one below 0, one above 100, one in range
C6_Witness ==
    /\ pc = "created"
    /\ entered = <<"-5", "150", "30", " +1_00 ", "-5">>
    /\ npc_personality = Personality(0, 100, 30, 100, 0)

-----------------------------------------------------------------------------
(* dynamic_interaction: history window and dialogue prompt *)

\* most characters of history a dialogue prompt carries
HistoryBudget == 2000

\* a window that keeps the oldest characters instead of the newest
LeadingSlice(history) ==
    IF Len(history) > HistoryBudget THEN SubSeq(history, 1, HistoryBudget) ELSE history

\* conversation_history[-2000:] when the history is longer than 2000 characters
TrailingSlice(history) ==
    IF Len(history) > HistoryBudget
    THEN SubSeq(history, Len(history) - HistoryBudget + 1, Len(history))
    ELSE history

\* the f-string up to the history
PromptHead(p, scene) ==
    "\n    Scene: " \o scene
    \o "\n    \n    NPC Personality:\n    Openness: " \o IntToStr(p.openness)
    \o "/100 (Higher means more creative, curious)\n    Conscientiousness: "
    \o IntToStr(p.conscientiousness)
    \o "/100 (Higher means more organized, disciplined)\n    Agreeableness: "
    \o IntToStr(p.agreeableness)
    \o "/100 (Higher means more friendly, cooperative)\n    Neuroticism: "
    \o IntToStr(p.neuroticism)
    \o "/100 (Higher means more anxious, emotionally volatile)\n    Extraversion: "
    \o IntToStr(p.extraversion)
    \o "/100 (Higher means more sociable, outgoing)\n    \n    Conversation history:\n    "

\* the f-string after the history
PromptTail(line) ==
    "\n    \n    Player says: \"" \o line
    \o "\"\n    \n    Respond as this NPC would, keeping responses concise (1-3 sentences). Stay in character based on personality traits. Do not include \"NPC:\" before your response.\n    "

\* the prompt dynamic_interaction builds from its four arguments
DialoguePrompt(p, scene, history, line) ==
    PromptHead(p, scene) \o TrailingSlice(history) \o PromptTail(line)

-----------------------------------------------------------------------------
(* fetch_gpt4_response and the try/except of dynamic_interaction *)

Return(text) == [kind |-> "return", text |-> text]

Raise(exc) == [kind |-> "raise", text |-> exc]

\* str(e) of the AttributeError raised by None.strip()
NoneStripMessage == "'NoneType' object has no attribute 'strip'"

\* the gateway without its try/except: a failure of the call leaves as an exception
FetchGpt4ResponseUncaught(o) ==
    CASE o.kind = "content" -> Return(Strip(o.text))
      [] o.kind = "null"    -> Raise(NoneStripMessage)
      [] o.kind = "raise"   -> Raise(o.text)

\* what fetch_gpt4_response returns when the backend call ends as o: the stripped
\* content, or the message of whatever exception the try block raised
FetchGpt4Response(o) ==
    CASE o.kind = "content" -> Return(Strip(o.text))
      [] o.kind = "null"    -> Return("Error generating response: " \o NoneStripMessage)
      [] o.kind = "raise"   -> Return("Error generating response: " \o o.text)

\* dynamic_interaction returns what the gateway returned, or "Error: ..." for an
\* exception that came out of it
DynamicInteractionResult(r) ==
    IF r.kind = "raise" THEN Return("Error: " \o r.text) ELSE r

-----------------------------------------------------------------------------
(* npc_personality_system *)

DefaultWorld == "A medieval fantasy world with kingdoms and magic."

\* the comparison without .lower()
IsExitCommandCaseSensitive(line) == line = "exit"

\* player_input.lower() == 'exit'; lower() keeps the length, so only a line of four
\* characters is lowered
IsExitCommand(line) == Len(line) = 4 /\ Lower(line) = "exit"

\* a session that keeps only the window it sent
AppendToWindow(history, line, reply) ==
    TrailingSlice(history) \o "\nYou: " \o line \o "\nNPC: " \o reply

\* conversation_history += f"\nYou: {player_input}\nNPC: {response}"
AppendExchange(history, line, reply) ==
    history \o "\nYou: " \o line \o "\nNPC: " \o reply

\* a loop that gives up after an error reply
StopOnError(reply) ==
    IF Len(reply) >= 5 /\ SubSeq(reply, 1, 5) = "Error" THEN "done" ELSE "read"

\* while True: after the append the loop is back at input(), whatever the reply
LoopAfterTurn(reply) == "read"

RECURSIVE Repeat(_, _)
Repeat(s, n) == IF n = 0 THEN "" ELSE s \o Repeat(s, n - 1)

\* a player line and a reply that fill the history budget in one exchange:
\* 6 + 994 + 6 + 994 = 2000
LongLine == SubSeq(Repeat("abcdefghij", 100), 1, 994)

LongReply == SubSeq(Repeat("0123456789", 100), 1, 994)

PlayerLines == {"exit", "Exit", "hi", LongLine}

\* what the backend call can end as
BackendOutcomes ==
    { [kind |-> "content", text |-> "  Well met, traveler.\n"],
      [kind |-> "content", text |-> LongReply],
      [kind |-> "null", text |-> ""],
      [kind |-> "raise", text |-> "Connection error."] }

CustomWorlds == {"", "A space station."}

SessionEntries == { <<"30", "-5", "150", " +1_00 ", "30">>, <<"30", "abc", "1", "2", "3">> }

Init ==
    /\ pc = "menu"
    /\ response = ""
    /\ onMissing = "default"
    /\ npc_personality = NoPersonality
    /\ entered = <<>>
    /\ world_description = DefaultWorld
    /\ conversation_history = ""
    /\ player_input = ""
    /\ prompt = ""
    /\ outcome = [kind |-> "none"]
    /\ exchanges = <<>>
    /\ calls = 0

\* menu choice "2": the world line (kept when not blank) and the five trait lines
StartCustom ==
    /\ pc = "menu"
    /\ \E custom_world \in CustomWorlds, lines \in SessionEntries :
          /\ world_description' =
                IF Strip(custom_world) # "" THEN custom_world ELSE DefaultWorld
          /\ entered' = lines
          /\ npc_personality' = CreateCustomPersonality(lines)
    /\ conversation_history' = ""
    /\ pc' = "read"
    /\ UNCHANGED <<response, onMissing, player_input, prompt, outcome, exchanges, calls>>

\* any other menu choice: the blacksmith ("1") or the merchant
StartPredefined ==
    /\ pc = "menu"
    /\ \E npc_choice \in {"1", "2"} :
          npc_personality' =
              IF npc_choice = "1" THEN Personality(10, 10, 10, 90, 90)
              ELSE Personality(90, 90, 90, 10, 10)
    /\ conversation_history' = ""
    /\ pc' = "read"
    /\ UNCHANGED <<response, onMissing, entered, world_description, player_input,
                   prompt, outcome, exchanges, calls>>

\* input("You: ") returns 'exit' in some case: the loop breaks
ReadExit ==
    /\ pc = "read"
    /\ \E line \in PlayerLines :
          /\ IsExitCommand(line)
          /\ player_input' = line
    /\ pc' = "done"
    /\ UNCHANGED <<response, onMissing, npc_personality, entered, world_description,
                   conversation_history, prompt, outcome, exchanges, calls>>

\* a loop that makes the gateway call and asks for the next line without waiting
\* for the call's result
ReadInputWithoutWaiting ==
    /\ pc = "read"
    /\ Len(exchanges) < MaxTurns
    /\ calls < MaxTurns
    /\ \E line \in PlayerLines :
          /\ ~IsExitCommand(line)
          /\ player_input' = line
          /\ prompt' = DialoguePrompt(npc_personality, world_description,
                                      conversation_history, line)
    /\ calls' = calls + 1
    /\ pc' = "read"
    /\ UNCHANGED <<response, onMissing, npc_personality, entered, world_description,
                   conversation_history, outcome, exchanges>>

\* input("You: ") returns any other line: dynamic_interaction builds the prompt and
\* makes the one gateway call, which blocks
ReadInput ==
    /\ pc = "read"
    /\ Len(exchanges) < MaxTurns
    /\ \E line \in PlayerLines :
          /\ ~IsExitCommand(line)
          /\ player_input' = line
          /\ prompt' = DialoguePrompt(npc_personality, world_description,
                                      conversation_history, line)
    /\ calls' = calls + 1
    /\ pc' = "waiting"
    /\ UNCHANGED <<response, onMissing, npc_personality, entered, world_description,
                   conversation_history, outcome, exchanges>>

\* the backend call ends as o; the gateway's result comes back through
\* dynamic_interaction to the loop, which appends the exchange to its history
Respond(o) ==
    /\ pc = "waiting"
    /\ outcome' = o
    /\ LET r == DynamicInteractionResult(FetchGpt4Response(o))
       IN  IF r.kind = "raise"
           THEN /\ pc' = "crashed"
                /\ response' = r.text
                /\ UNCHANGED <<conversation_history, exchanges>>
           ELSE /\ response' = r.text
                /\ conversation_history' =
                      AppendExchange(conversation_history, player_input, r.text)
                /\ exchanges' = Append(exchanges, <<player_input, r.text>>)
                /\ pc' = LoopAfterTurn(r.text)
    /\ UNCHANGED <<onMissing, npc_personality, entered, world_description,
                   player_input, prompt, calls>>

BackendReturns == \E o \in BackendOutcomes : o.kind = "content" /\ Respond(o)

BackendReturnsNoContent == \E o \in BackendOutcomes : o.kind = "null" /\ Respond(o)

BackendRaises == \E o \in BackendOutcomes : o.kind = "raise" /\ Respond(o)

Next ==
    \/ StartCustom
    \/ StartPredefined
    \/ ReadExit
    \/ ReadInput
    \/ BackendReturns
    \/ BackendReturnsNoContent
    \/ BackendRaises

Spec == Init /\ [][Next]_vars

-----------------------------------------------------------------------------
(* Claims about the conversation session *)

\* the history text a prompt carries: what stands between the text before the
\* history and the text after it
EmbeddedHistory ==
    LET head == PromptHead(npc_personality, world_description)
        tail == PromptTail(player_input)
    IN  SubSeq(prompt, Len(head) + 1, Len(prompt) - Len(tail))

\* C4: the history text embedded in a dialogue prompt has at most 2000 characters;
\* it is the whole accumulated history when that has at most 2000 characters and
\* otherwise exactly its last 2000 characters.
C4_PromptHistoryBounded ==
    pc = "waiting" =>
        LET emb  == EmbeddedHistory
            full == conversation_history
        IN  /\ Len(emb) <= 2000
            /\ Len(emb) = Min(2000, Len(full))
            /\ SubSeq(full, Len(full) - Len(emb) + 1, Len(full)) = emb
            /\ prompt = PromptHead(npc_personality, world_description) \o emb
                            \o PromptTail(player_input)

\* a prompt built from a history longer than the budget, after one built from a
\* history of exactly 2000 characters
C4_Witness ==
    /\ pc = "waiting"
    /\ Len(exchanges) = 2
    /\ Len(exchanges[1][1]) + Len(exchanges[1][2]) + 12 = 2000
    /\ Len(conversation_history) > 2000
    /\ Len(EmbeddedHistory) = 2000
    /\ EmbeddedHistory # conversation_history

\* C5: a failed backend call comes back from the gateway as a reply carrying the
\* error message, and never reaches the session loop as an unhandled fault.
C5_FailureBecomesErrorReply ==
    /\ pc # "crashed"
    /\ (pc \in {"read", "done"} /\ outcome.kind = "raise") =>
          /\ response = "Error generating response: " \o outcome.text
          /\ exchanges[Len(exchanges)][2] = response
    /\ (pc \in {"read", "done"} /\ outcome.kind = "null") =>
          /\ SubSeq(response, 1, 27) = "Error generating response: "
          /\ exchanges[Len(exchanges)][2] = response

C5_Witness ==
    /\ pc = "read"
    /\ outcome = [kind |-> "raise", text |-> "Connection error."]
    /\ response = "Error generating response: Connection error."

\* C7: every turn makes exactly one gateway call, and no player input is read
\* while a call's result is still to be received and appended.
C7_OneBlockingCallPerTurn ==
    /\ [](/\ pc = "waiting" => calls = Len(exchanges) + 1
          /\ pc \in {"read", "done"} => calls = Len(exchanges))
    /\ [][ /\ (pc = "read" /\ pc' = "waiting") =>
                 (calls' = calls + 1 /\ exchanges' = exchanges)
           /\ pc = "waiting" =>
                 /\ player_input' = player_input
                 /\ calls' = calls
                 /\ exchanges' = Append(exchanges, <<player_input, response'>>)
                 /\ conversation_history' =
                       conversation_history \o "\nYou: " \o player_input
                                            \o "\nNPC: " \o response'
           /\ player_input' # player_input => pc = "read" ]_vars

C7_Witness ==
    /\ pc = "waiting"
    /\ calls = 3
    /\ Len(exchanges) = 2

\* C8: an exit input ends the loop at once: no gateway call is made for it, the
\* history stays as it was, and no further input is read.
C8_ExitEndsSession ==
    /\ [][ (pc = "read" /\ player_input' \in {"exit", "Exit"}) =>
              /\ pc' = "done"
              /\ calls' = calls
              /\ conversation_history' = conversation_history
              /\ exchanges' = exchanges
              /\ prompt' = prompt ]_vars
    /\ [][ pc # "done" ]_vars

C8_Witness ==
    /\ pc = "done"
    /\ player_input = "Exit"
    /\ Len(exchanges) = 2
    /\ calls = 2

RECURSIVE RenderExchanges(_)
\* the player line and the NPC line of every logged exchange, in order
RenderExchanges(log) ==
    IF Len(log) = 0 THEN ""
    ELSE RenderExchanges(SubSeq(log, 1, Len(log) - 1))
            \o "\nYou: " \o log[Len(log)][1] \o "\nNPC: " \o log[Len(log)][2]

\* C9: the session's history starts empty and after k exchanges is the in-order
\* concatenation of the k pairs; building a prompt never shortens it.
C9_HistoryIsAllExchanges ==
    /\ pc = "menu" => conversation_history = ""
    /\ pc \in {"read", "waiting", "done"} =>
          conversation_history = RenderExchanges(exchanges)

C9_Witness ==
    /\ pc = "read"
    /\ Len(exchanges) = 3
    /\ Len(conversation_history) > 4000

\* C10: a failed generation stays within its turn: the loop goes back to reading
\* input, and a later prompt depends on the failed turn only through its recorded
\* pair.
C10_FailureIsLocal ==
    /\ [](pc = "waiting" =>
            prompt = PromptHead(npc_personality, world_description)
                        \o (LET h == RenderExchanges(exchanges)
                            IN  SubSeq(h, Max(1, Len(h) - 1999), Len(h)))
                        \o PromptTail(player_input))
    /\ [][ (pc = "waiting" /\ outcome'.kind \in {"raise", "null"}) =>
              /\ pc' = "read"
              /\ exchanges' = Append(exchanges, <<player_input, response'>>) ]_vars

\* a turn in flight after a turn whose backend call failed
C10_Witness ==
    /\ pc = "waiting"
    /\ Len(exchanges) = 2
    /\ exchanges[1] = <<"hi", "Error generating response: Connection error.">>
    /\ exchanges[2][2] = "Well met, traveler."

====
